---- MODULE Spec2Model ----
(***************************************************************************)
(* A model of the portfolio back end: the Access Gate and the routes       *)
(* mounted around it (server.js), the article store (owner.js), the        *)
(* profile store (me.js) and the portfolio store (portfolio.js).           *)
(*                                                                         *)
(* A document is a function from field names to values; a collection is a  *)
(* sequence of documents in insertion order.  A request is a record whose  *)
(* pc is the await point it is suspended at: requests interleave only at   *)
(* database round trips and at the token verification.                     *)
(***************************************************************************)
EXTENDS Integers, Sequences, FiniteSets, TLC

VARIABLES started, articles, me, clock, reqs, portfolios, nextOid, call, meCall,
          up, dels, images, nextImg

vars == <<started, articles, me, clock, reqs, portfolios, nextOid, call, meCall,
          up, dels, images, nextImg>>

\* the state of the HTTP routes modelled request by request
serverVars == <<started, articles, me, clock, reqs>>
\* the state of the portfolio store
portfolioVars == <<portfolios, nextOid, call>>
\* the record of the calls made on the profile store
profileVars == <<meCall>>
\* the upload pipeline: the upload request in flight, the delete requests in
\* flight, the image metadata collection and the next _id of its driver
uploadVars == <<up, dels, images, nextImg>>

(***************************************************************************)
(* Bounds of the model.                                                    *)
(***************************************************************************)
\* how many requests the server receives in one behaviour
MaxReq == 2
\* the last clock value new Date() can return
MaxClock == 1
\* how many portfolio items are ever inserted
MaxCreates == 2
\* the longest short :id path segment
MaxIdLen == 2
\* the longest title built from the title alphabet
MaxTitleLen == 2
\* the most files one upload request carries
MaxFiles == 3
\* the number of image delete requests in flight
MaxDel == 2

(***************************************************************************)
(* Documents and the update operators of the database driver.              *)
(***************************************************************************)
\* the document with no field
EmptyDoc == [f \in {} |-> ""]

Has(doc, f) == f \in DOMAIN doc

\* { $set: upd }: every field of upd is written, every other field is kept
SetFields(doc, upd) ==
    [f \in (DOMAIN doc) \cup (DOMAIN upd) |->
        IF f \in DOMAIN upd THEN upd[f] ELSE doc[f]]

\* { $inc: { f: n } }: an absent field counts as 0
IncField(doc, f, n) ==
    SetFields(doc, [g \in {f} |-> (IF Has(doc, f) THEN doc[f] ELSE 0) + n])

\* { $push: { f: v } }: an absent field becomes the one-element array
PushField(doc, f, v) ==
    SetFields(doc, [g \in {f} |-> IF Has(doc, f) THEN Append(doc[f], v) ELSE <<v>>])

Range(s) == { s[i] : i \in 1..Len(s) }

\* the first of the indices S of the matching documents, 0 if none matches
FirstMatch(S) ==
    IF S = {} THEN 0 ELSE CHOOSE i \in S : \A j \in S : i <= j

(***************************************************************************)
(* The identity service: admin.auth().verifyIdToken(token).                *)
(***************************************************************************)
\* the authtoken header is absent
NoToken == ""
\* a decoded token without uid
NoUid == ""

ValidTokens == {"tok-alice", "tok-bob", "tok-nouid"}
Tokens == ValidTokens \cup {"tok-expired"}

\* the decoded token that verifyIdToken resolves to for a valid token
DecodedToken(token) ==
    CASE token = "tok-alice" -> [uid |-> "alice"]
      [] token = "tok-bob"   -> [uid |-> "bob"]
      [] OTHER               -> [sub |-> "anonymous"]

(***************************************************************************)
(* The routes in the order server.js mounts them.                          *)
(***************************************************************************)
Gate == "GATE"
PutMe == "PUT /api/me"
PutUpvote == "PUT /api/articles/:name/upvote"
PostComment == "POST /api/articles/:name/comments"

\* the middleware stack: a layer mounted before the gate runs without it
MountOrder == <<PutMe, Gate, PutUpvote, PostComment>>

MountIndex(route) == CHOOSE i \in 1..Len(MountOrder) : MountOrder[i] = route

MountedAfterGate(route) == MountIndex(route) > MountIndex(Gate)

ArticleRoutes == {PutUpvote, PostComment}

(***************************************************************************)
(* Requests.                                                               *)
(***************************************************************************)
Slots == 1..MaxReq

\* the :name path segments the clients ask for
ReqNames == {"learn-react", "learn-node", "no-such-article"}

\* the JSON bodies of POST /api/articles/:name/comments
CommentBodies == {[nameText |-> "nice"]}

\* the JSON bodies of PUT /api/me
MeBodies == {[bio |-> "I build things"], [name |-> "A. N.", updatedAt |-> 0]}

\* a slot no request has arrived in
IdleReq ==
    [pc |-> "idle", route |-> "", token |-> NoToken, name |-> "",
     body |-> EmptyDoc, user |-> EmptyDoc, userSet |-> FALSE,
     status |-> 0, error |-> "",
     verifierCalled |-> FALSE, handlerInvoked |-> FALSE, dbOps |-> 0]

\* res.status(code).json({ error: message }) or res.json(...): the request ends
Respond(req, code, message) ==
    [req EXCEPT !.pc = "done", !.status = code, !.error = message]

\* a handler that lets the body name the voter
UidOfBody(req) ==
    IF Has(req.body, "uid") THEN req.body.uid
    ELSE IF Has(req.user, "uid") THEN req.user.uid ELSE NoUid

\* const { uid } = req.user
UidOf(req) == IF Has(req.user, "uid") THEN req.user.uid ELSE NoUid

(***************************************************************************)
(* Startup: startServer seeds the collections, then listens.               *)
(***************************************************************************)
\* the three documents initializeArticles inserts
DefaultArticles ==
    << [articleName |-> "learn-react",   upvotes |-> 0, comments |-> <<>>],
       [articleName |-> "learn-node",    upvotes |-> 0, comments |-> <<>>],
       [articleName |-> "learn-mongodb", upvotes |-> 0, comments |-> <<>>] >>

\* a seeding of the articles that does not count the documents first
InitializeArticlesAlways(coll) == coll \o DefaultArticles

\* OwnerAPI.initializeArticles: insert the defaults into an empty collection
InitializeArticles(coll) ==
    IF Len(coll) = 0 THEN coll \o DefaultArticles ELSE coll

\* the profile initializeMe inserts; t1 and t2 are its two new Date() values
DefaultUser(t1, t2) ==
    [name |-> "Azizjon Nigmatjonov", email |-> "azizjonnigmatjonov@gmail.com",
     uid |-> "68dd78ce3fa15036f9cedce4", createdAt |-> t1, updatedAt |-> t2,
     role |-> "admin", status |-> "active", profilePicture |-> "cv.jpeg",
     bio |-> "I am a software engineer", phone |-> "+998994912830"]

\* a seeding that does not count the documents first
InitializeMeAlways(coll, t1, t2) == Append(coll, DefaultUser(t1, t2))

\* MeAPI.initializeMe: insert the default profile into an empty collection
InitializeMe(coll, t1, t2) ==
    IF Len(coll) = 0 THEN Append(coll, DefaultUser(t1, t2)) ELSE coll

StartServer ==
    /\ ~started
    /\ me' = InitializeMe(me, clock, clock)
    /\ clock' = clock
    /\ articles' = InitializeArticles(articles)
    /\ started' = TRUE
    /\ UNCHANGED <<reqs, portfolioVars, profileVars, uploadVars>>

(***************************************************************************)
(* The HTTP surface: dispatch and the Access Gate.                         *)
(***************************************************************************)
\* the bodies a client can send to a route
BodiesOf(route) ==
    CASE route = PutMe       -> MeBodies
      [] route = PostComment -> CommentBodies
      [] OTHER               -> {EmptyDoc}

\* a gate that hands every request to the identity service, token or not
AccessGateAlwaysVerifies(req) ==
    [req EXCEPT !.pc = "verify", !.verifierCalled = TRUE]

\* the gate up to its await: no authtoken answers 401, a token is handed to
\* the identity service
AccessGate(req) ==
    IF req.token # NoToken
    THEN [req EXCEPT !.pc = "verify", !.verifierCalled = TRUE]
    ELSE Respond(req, 401, "Unauthorized")

\* the middleware stack up to the first await: a route mounted before the
\* gate goes to its handler, every other request goes through the gate
Dispatch(req) ==
    IF MountedAfterGate(req.route)
    THEN AccessGate(req)
    ELSE [req EXCEPT !.pc = "handler"]

\* a request for one of the routes arrives
ArriveOn(r, routes) ==
    /\ started
    /\ reqs[r].pc = "idle"
    /\ \A q \in 1..(r - 1) : reqs[q].pc # "idle"
    /\ \E route \in routes, token \in {NoToken} \cup Tokens :
         \E name \in (IF route = PutMe THEN {""} ELSE ReqNames),
            body \in BodiesOf(route) :
           reqs' = [reqs EXCEPT ![r] =
                      Dispatch([IdleReq EXCEPT !.route = route, !.token = token,
                                               !.name = name, !.body = body])]
    /\ UNCHANGED <<started, articles, me, clock, portfolioVars, profileVars, uploadVars>>

\* verifyIdToken resolved: req.user = user; next()
VerifyResolve(r) ==
    /\ reqs[r].pc = "verify"
    /\ reqs[r].token \in ValidTokens
    /\ reqs' = [reqs EXCEPT ![r] =
                  [reqs[r] EXCEPT !.user = DecodedToken(reqs[r].token),
                                  !.userSet = TRUE, !.pc = "handler"]]
    /\ UNCHANGED <<started, articles, me, clock, portfolioVars, profileVars, uploadVars>>

\* verifyIdToken rejected inside the async middleware, which has no catch:
\* the gate neither answers nor calls next().  What the client gets is the
\* framework's doing: its error handler answers 500, or nothing answers.
VerifyReject(r) ==
    /\ reqs[r].pc = "verify"
    /\ reqs[r].token \notin ValidTokens
    /\ \/ reqs' = [reqs EXCEPT ![r] = Respond(reqs[r], 500, "auth/id-token-rejected")]
       \/ reqs' = [reqs EXCEPT ![r] = [reqs[r] EXCEPT !.pc = "unanswered"]]
    /\ UNCHANGED <<started, articles, me, clock, portfolioVars, profileVars, uploadVars>>

(***************************************************************************)
(* The article store (OwnerAPI) and its two protected routes.              *)
(***************************************************************************)
\* collection('articles').findOne({ articleName: name }), as an index
FindArticle(coll, name) ==
    FirstMatch({ i \in 1..Len(coll) :
                   Has(coll[i], "articleName") /\ coll[i].articleName = name })

\* article.upvodIds?.includes(uid)
IncludesVoter(article, uid) ==
    Has(article, "upvodIds") /\ uid \in Range(article.upvodIds)

\* the checks with the article looked at before the uid
UpvoteCheckArticleFirst(coll, name, uid) ==
    LET i == FindArticle(coll, name)
    IN  IF i = 0 THEN "Article not found"
        ELSE IF uid = NoUid THEN "not have uid"
        ELSE IF IncludesVoter(coll[i], uid) THEN "Already upvoted"
        ELSE ""

\* the checks of upvoteArticle on the document findOne returned: the
\* message of the error thrown, "" when none is
UpvoteCheck(coll, name, uid) ==
    LET i == FindArticle(coll, name)
    IN  IF uid = NoUid THEN "not have uid"
        ELSE IF i = 0 THEN "Article not found"
        ELSE IF IncludesVoter(coll[i], uid) THEN "Already upvoted"
        ELSE ""

\* the status the upvote route gives an error message
UpvoteStatus(message) ==
    CASE message = "not have uid"      -> 401
      [] message = "Article not found" -> 404
      [] message = "Already upvoted"   -> 403
      [] OTHER                         -> 500

\* an update that counts the vote and forgets the voter
UpvoteUpdateNoPush(doc, uid) == IncField(doc, "upvotes", 1)

\* an update that records the voter and does not count the vote
UpvoteUpdateNoInc(doc, uid) == PushField(doc, "upvodIds", uid)

\* { $inc: { upvotes: 1 }, $push: { upvodIds: uid } } on one document
UpvoteUpdate(doc, uid) ==
    PushField(IncField(doc, "upvotes", 1), "upvodIds", uid)

\* findOneAndUpdate({ articleName: name }, upvote update): the first match
\* is rewritten in place, no match changes nothing
UpvoteArticleColl(coll, name, uid) ==
    LET i == FindArticle(coll, name)
    IN  IF i = 0 THEN coll ELSE [coll EXCEPT ![i] = UpvoteUpdate(coll[i], uid)]

\* an update that adds the comment to a set of comments
AddCommentToSet(coll, name, text) ==
    LET i == FindArticle(coll, name)
    IN  IF i = 0 \/ (Has(coll[i], "comments") /\ text \in Range(coll[i].comments))
        THEN coll
        ELSE [coll EXCEPT ![i] = PushField(coll[i], "comments", text)]

\* findOneAndUpdate({ articleName: name }, { $push: { comments: text } })
AddCommentColl(coll, name, text) ==
    LET i == FindArticle(coll, name)
    IN  IF i = 0 THEN coll
        ELSE [coll EXCEPT ![i] = PushField(coll[i], "comments", text)]

\* the handler up to the first await of upvoteArticle and the checks made
\* on what findOne returned
UpvoteRead(r) ==
    /\ reqs[r].pc = "handler"
    /\ reqs[r].route = PutUpvote
    /\ LET req == [reqs[r] EXCEPT !.handlerInvoked = TRUE, !.dbOps = @ + 1]
           message == UpvoteCheck(articles, req.name, UidOf(req))
       IN  \/ reqs' = [reqs EXCEPT ![r] =
                         IF message = ""
                         THEN [req EXCEPT !.pc = "update"]
                         ELSE Respond(req, UpvoteStatus(message), message)]
           \* findOne throws: the catch rethrows the driver's error
           \/ reqs' = [reqs EXCEPT ![r] =
                         Respond(req, UpvoteStatus("driver error"), "driver error")]
    /\ UNCHANGED <<started, articles, me, clock, portfolioVars, profileVars, uploadVars>>

\* findOneAndUpdate of upvoteArticle, then res.json(updatedArticle)
UpvoteWrite(r) ==
    /\ reqs[r].pc = "update"
    /\ LET req == [reqs[r] EXCEPT !.dbOps = @ + 1]
       IN  \/ /\ articles' = UpvoteArticleColl(articles, req.name, UidOf(req))
              /\ reqs' = [reqs EXCEPT ![r] = Respond(req, 200, "")]
           \/ /\ articles' = articles
              /\ reqs' = [reqs EXCEPT ![r] =
                            Respond(req, UpvoteStatus("driver error"), "driver error")]
    /\ UNCHANGED <<started, me, clock, portfolioVars, profileVars, uploadVars>>

\* POST /api/articles/:name/comments: addComment(name, req.body.nameText)
AddComment(r) ==
    /\ reqs[r].pc = "handler"
    /\ reqs[r].route = PostComment
    /\ LET req == [reqs[r] EXCEPT !.handlerInvoked = TRUE, !.dbOps = @ + 1]
       IN  \/ /\ articles' = AddCommentColl(articles, req.name, req.body.nameText)
              /\ reqs' = [reqs EXCEPT ![r] = Respond(req, 200, "")]
           \/ /\ articles' = articles
              /\ reqs' = [reqs EXCEPT ![r] = Respond(req, 500, "Failed to add comment")]
    /\ UNCHANGED <<started, me, clock, portfolioVars, profileVars, uploadVars>>

\* update fields in which an updatedAt of the body survives
UpdateFieldsBodyWins(updatedData, t) == SetFields([updatedAt |-> t], updatedData)

(***************************************************************************)
(* The profile store (MeAPI) and PUT /api/me.                              *)
(***************************************************************************)
\* const updateFields = { ...updatedData, updatedAt: new Date() }
UpdateFields(updatedData, t) == SetFields(updatedData, [updatedAt |-> t])

\* an update that stores its fields as a document of their own
UpdateMeInserts(coll, updatedData, t) == Append(coll, UpdateFields(updatedData, t))

\* findOneAndUpdate({}, { $set: updateFields }, { upsert: false })
UpdateMeColl(coll, updatedData, t) ==
    IF Len(coll) = 0 THEN coll
    ELSE [coll EXCEPT ![1] = SetFields(coll[1], UpdateFields(updatedData, t))]

\* PUT /api/me: meAPI.updateMe(req.body)
UpdateMe(r) ==
    /\ reqs[r].pc = "handler"
    /\ reqs[r].route = PutMe
    /\ LET req == [reqs[r] EXCEPT !.handlerInvoked = TRUE, !.dbOps = @ + 1]
       IN  \E t \in clock..MaxClock :
             /\ clock' = t
             /\ \/ /\ me' = UpdateMeColl(me, req.body, t)
                   /\ reqs' = [reqs EXCEPT ![r] = Respond(req, 200, "")]
                \/ /\ me' = me
                   /\ reqs' = [reqs EXCEPT ![r] = Respond(req, 500, "Failed to update user")]
    /\ UNCHANGED <<started, articles, portfolioVars, profileVars, uploadVars>>

(***************************************************************************)
(* Strings that the code inspects character by character are sequences of *)
(* one-character strings.                                                  *)
(***************************************************************************)
Digits == {"0", "1", "2", "3", "4", "5", "6", "7", "8", "9"}
HexChars == Digits \cup {"a", "b", "c", "d", "e", "f", "A", "B", "C", "D", "E", "F"}
\* \s, as far as the inputs use it
Whitespace == {" ", "\t", "\n", "\r"}

UpperLetters ==
    << "A", "B", "C", "D", "E", "F", "G", "H", "I", "J", "K", "L", "M",
       "N", "O", "P", "Q", "R", "S", "T", "U", "V", "W", "X", "Y", "Z" >>
LowerLetters ==
    << "a", "b", "c", "d", "e", "f", "g", "h", "i", "j", "k", "l", "m",
       "n", "o", "p", "q", "r", "s", "t", "u", "v", "w", "x", "y", "z" >>

LowerChar(c) ==
    IF \E i \in 1..Len(UpperLetters) : UpperLetters[i] = c
    THEN LowerLetters[CHOOSE i \in 1..Len(UpperLetters) : UpperLetters[i] = c]
    ELSE c

\* String.prototype.toLowerCase
ToLowerCase(str) == [i \in 1..Len(str) |-> LowerChar(str[i])]

\* the string of n copies of c
Repeat(c, n) == [i \in 1..n |-> c]

\* all strings over alphabet of length from to upto
StringsOver(alphabet, from, upto) ==
    UNION { [1..n -> alphabet] : n \in from..upto }

(***************************************************************************)
(* The Identity Resolver of the portfolio store.                           *)
(***************************************************************************)
\* the length of an ObjectId in hexadecimal
ObjectIdHexLen == 24

\* id.match(/^[0-9a-fA-F]{24}$/)
MatchesObjectId(id) ==
    Len(id) = ObjectIdHexLen /\ \A i \in 1..Len(id) : id[i] \in HexChars

\* /^\d+$/.test(id)
IsNumericString(id) ==
    Len(id) >= 1 /\ \A i \in 1..Len(id) : id[i] \in Digits

\* new ObjectId(id): twelve bytes, so the case of the hex digits is lost
ObjectId(id) == ToLowerCase(id)

RECURSIVE StripLeadingZeros(_)
StripLeadingZeros(ds) ==
    IF Len(ds) > 1 /\ Head(ds) = "0" THEN StripLeadingZeros(Tail(ds)) ELSE ds

\* parseInt(id) of a digit string: the number, written without leading zeros
ParseInt(id) == [num |-> TRUE, s |-> StripLeadingZeros(id)]

\* a string as the value of the legacy id field
StringValue(id) == [num |-> FALSE, s |-> id]

\* the filter with the digit test made before the ObjectId test
QueryDigitsFirst(id) ==
    IF IsNumericString(id)
    THEN [kind |-> "or", idNumber |-> ParseInt(id), idString |-> StringValue(id), slug |-> id]
    ELSE IF MatchesObjectId(id)
    THEN [kind |-> "_id", oid |-> ObjectId(id)]
    ELSE [kind |-> "slug", slug |-> id]

\* the filter getPortfolioById hands to findOne
GetQuery(id) ==
    IF MatchesObjectId(id)
    THEN [kind |-> "_id", oid |-> ObjectId(id)]
    ELSE IF IsNumericString(id)
    THEN [kind |-> "or", idNumber |-> ParseInt(id), idString |-> StringValue(id), slug |-> id]
    ELSE [kind |-> "slug", slug |-> id]

\* the query updatePortfolio builds
UpdateQuery(id) ==
    IF MatchesObjectId(id)
    THEN [kind |-> "_id", oid |-> ObjectId(id)]
    ELSE IF IsNumericString(id)
    THEN [kind |-> "or", idNumber |-> ParseInt(id), idString |-> StringValue(id), slug |-> id]
    ELSE [kind |-> "slug", slug |-> id]

\* the query deletePortfolio builds
DeleteQuery(id) ==
    IF MatchesObjectId(id)
    THEN [kind |-> "_id", oid |-> ObjectId(id)]
    ELSE IF IsNumericString(id)
    THEN [kind |-> "or", idNumber |-> ParseInt(id), idString |-> StringValue(id), slug |-> id]
    ELSE [kind |-> "slug", slug |-> id]

\* whether a stored document satisfies a filter
Matches(doc, query) ==
    CASE query.kind = "_id"  -> doc["_id"] = query.oid
      [] query.kind = "or"   ->
            \/ Has(doc, "id") /\ doc.id = query.idNumber
            \/ Has(doc, "id") /\ doc.id = query.idString
            \/ Has(doc, "slug") /\ doc.slug = query.slug
      [] OTHER               -> Has(doc, "slug") /\ doc.slug = query.slug

\* findOne, updateOne and deleteOne act on the first matching document
FindPortfolio(coll, query) ==
    FirstMatch({ i \in 1..Len(coll) : Matches(coll[i], query) })

(***************************************************************************)
(* The portfolio store (PortfolioAPI) and the handlers of its routes.      *)
(***************************************************************************)
RECURSIVE SkipWhitespace(_)
SkipWhitespace(str) ==
    IF str # <<>> /\ Head(str) \in Whitespace THEN SkipWhitespace(Tail(str)) ELSE str

\* str.replace(/\s+/g, '_'): every run of whitespace becomes one underscore
RECURSIVE ReplaceWhitespaceRuns(_)
ReplaceWhitespaceRuns(str) ==
    IF str = <<>> THEN <<>>
    ELSE IF Head(str) \in Whitespace
    THEN <<"_">> \o ReplaceWhitespaceRuns(SkipWhitespace(Tail(str)))
    ELSE <<Head(str)>> \o ReplaceWhitespaceRuns(Tail(str))

\* a slug that keeps the case of the title
SlugKeepingCase(title) == ReplaceWhitespaceRuns(title)

\* portfolioData.title.toLowerCase().replace(/\s+/g, '_')
SlugOf(title) == ReplaceWhitespaceRuns(ToLowerCase(title))

\* if (portfolioData.title) portfolioData.slug = ...
WithSlug(portfolioData) ==
    IF Has(portfolioData, "title") /\ portfolioData.title # <<>>
    THEN SetFields(portfolioData, [slug |-> SlugOf(portfolioData.title)])
    ELSE portfolioData

\* the n-th ObjectId the driver generates
OidChars == <<"7", "f", "c", "9">>
Oid(n) == Repeat(OidChars[n], ObjectIdHexLen)

\* the document { _id: v }
IdField(v) == [f \in {"_id"} |-> v]

\* the document insertOne stores: the data and the generated _id
InsertedDoc(portfolioData, oid) == SetFields(portfolioData, IdField(oid))

\* a rest pattern that removes nothing
KeepId(portfolioData) == portfolioData

\* an update that derives the slug from the title as createPortfolio does
WithoutIdNewSlug(portfolioData) ==
    WithSlug([f \in (DOMAIN portfolioData) \ {"_id"} |-> portfolioData[f]])

\* const { _id, ...updateData } = portfolioData
WithoutId(portfolioData) ==
    [f \in (DOMAIN portfolioData) \ {"_id"} |-> portfolioData[f]]

\* updateMany(query, { $set: updateData })
UpdateMany(coll, query, updateData) ==
    [j \in 1..Len(coll) |->
       IF Matches(coll[j], query) THEN SetFields(coll[j], updateData) ELSE coll[j]]

\* updateOne(query, { $set: updateData }): the first match is rewritten
UpdateOne(coll, query, updateData) ==
    LET i == FindPortfolio(coll, query)
    IN  IF i = 0 THEN coll ELSE [coll EXCEPT ![i] = SetFields(coll[i], updateData)]

\* a result that is the update data alone
UpdateResultDataOnly(id, updateData) == updateData

\* return { _id: id, ...updateData }
UpdateResult(id, updateData) == SetFields(IdField(id), updateData)

\* the primary keys of the stored items, in storage order
PrimaryKeys(coll) == [i \in 1..Len(coll) |-> coll[i]["_id"]]

\* the collection without its i-th document
RemoveAt(coll, i) == SubSeq(coll, 1, i - 1) \o SubSeq(coll, i + 1, Len(coll))

\* no call has been made
NoCall ==
    [op |-> "none", id |-> <<>>, data |-> EmptyDoc, query |-> EmptyDoc,
     ok |-> FALSE, error |-> "", status |-> 0, result |-> EmptyDoc,
     keysBefore |-> <<>>, served |-> TRUE]

\* the record of a call: what it was given, the filter it built, what it
\* returned or threw, the status its route answered, the keys it found
\* stored, whether the driver served its database operation
Call(op, id, data, query, ok, error, status, result) ==
    [op |-> op, id |-> id, data |-> data, query |-> query, ok |-> ok,
     error |-> error, status |-> status, result |-> result,
     keysBefore |-> PrimaryKeys(portfolios), served |-> TRUE]

\* the record of a call whose database operation the driver failed
DriverThrew(c) == [c EXCEPT !.served = FALSE]

\* the status PUT and DELETE /api/portfolios/:id give an error message
NotFoundOr500(message) == IF message = "Portfolio not found" THEN 404 ELSE 500

\* POST /api/portfolios: createPortfolio(req.body), at most items stored
CreatePortfolio(portfolioData, items) ==
    /\ nextOid <= MaxCreates
    /\ Len(portfolios) < items
    /\ LET data == WithSlug(portfolioData)
           doc == InsertedDoc(data, Oid(nextOid))
       IN  \/ /\ portfolios' = Append(portfolios, doc)
              /\ nextOid' = nextOid + 1
              /\ call' = Call("create", <<>>, portfolioData, EmptyDoc, TRUE, "", 201, doc)
           \* insertOne throws
           \/ /\ UNCHANGED <<portfolios, nextOid>>
              /\ call' = DriverThrew(Call("create", <<>>, portfolioData, EmptyDoc, FALSE,
                              "Failed to create portfolio", 500, EmptyDoc))
    /\ UNCHANGED <<serverVars, profileVars, uploadVars>>

\* GET /api/portfolios/:id: getPortfolioById(id)
GetPortfolioById(id) ==
    /\ LET query == GetQuery(id)
           i == FindPortfolio(portfolios, query)
       IN  \/ /\ i # 0
              /\ call' = Call("get", id, EmptyDoc, query, TRUE, "", 200, portfolios[i])
           \* 'Portfolio not found' is thrown inside the try and caught there
           \/ /\ i = 0
              /\ call' = Call("get", id, EmptyDoc, query, FALSE,
                              "Failed to fetch portfolio", 500, EmptyDoc)
           \* findOne throws
           \/ call' = DriverThrew(Call("get", id, EmptyDoc, query, FALSE,
                           "Failed to fetch portfolio", 500, EmptyDoc))
    /\ UNCHANGED <<portfolios, nextOid, serverVars, profileVars, uploadVars>>

\* PUT /api/portfolios/:id: updatePortfolio(id, req.body)
UpdatePortfolio(id, portfolioData) ==
    /\ LET query == UpdateQuery(id)
           updateData == WithoutId(portfolioData)
           i == FindPortfolio(portfolios, query)
           message == "Failed to update portfolio"
       IN  \/ /\ i # 0
              /\ portfolios' = UpdateOne(portfolios, query, updateData)
              /\ call' = Call("update", id, portfolioData, query, TRUE, "", 200,
                              UpdateResult(id, updateData))
           \* matchedCount = 0: 'Portfolio not found' is thrown inside the try
           \/ /\ i = 0
              /\ portfolios' = portfolios
              /\ call' = Call("update", id, portfolioData, query, FALSE, message,
                              NotFoundOr500(message), EmptyDoc)
           \* updateOne throws
           \/ /\ portfolios' = portfolios
              /\ call' = DriverThrew(Call("update", id, portfolioData, query, FALSE, message,
                              NotFoundOr500(message), EmptyDoc))
    /\ UNCHANGED <<nextOid, serverVars, profileVars, uploadVars>>

\* DELETE /api/portfolios/:id: deletePortfolio(id)
DeletePortfolio(id) ==
    /\ LET query == DeleteQuery(id)
           i == FindPortfolio(portfolios, query)
           message == "Failed to delete portfolio"
       IN  \/ /\ i # 0
              /\ portfolios' = RemoveAt(portfolios, i)
              /\ call' = Call("delete", id, EmptyDoc, query, TRUE, "", 200, EmptyDoc)
           \* deletedCount = 0: 'Portfolio not found' is thrown inside the try
           \/ /\ i = 0
              /\ portfolios' = portfolios
              /\ call' = Call("delete", id, EmptyDoc, query, FALSE, message,
                              NotFoundOr500(message), EmptyDoc)
           \* deleteOne throws
           \/ /\ portfolios' = portfolios
              /\ call' = DriverThrew(Call("delete", id, EmptyDoc, query, FALSE, message,
                              NotFoundOr500(message), EmptyDoc))
    /\ UNCHANGED <<nextOid, serverVars, profileVars, uploadVars>>

(***************************************************************************)
(* The profile store (MeAPI) called directly: getMe, updateMe and          *)
(* initializeMe one after the other, on a collection that starts empty.    *)
(***************************************************************************)
\* no call has been made on the profile store
NoMeCall ==
    [op |-> "none", data |-> EmptyDoc, ok |-> FALSE, error |-> "",
     result |-> <<>>, before |-> <<>>, t |-> 0,
     seeded |-> <<>>, pristine |-> FALSE]

\* the record of a call: what it was given, whether it returned, what it
\* returned or threw, the collection it found, the time it stamped; seeded
\* is the document the last inserting initializeMe stored and pristine says
\* that no updateMe has changed it since
MeCall(op, data, ok, error, result, t, seeded, pristine) ==
    [op |-> op, data |-> data, ok |-> ok, error |-> error, result |-> result,
     before |-> me, t |-> t, seeded |-> seeded, pristine |-> pristine]

\* findOne() without a filter: the first document, or null
FirstOrNull(coll) == IF Len(coll) = 0 THEN <<>> ELSE <<coll[1]>>

\* the bodies updateMe is called with
ProfileBodies == MeBodies \cup {SetFields(IdField("me-1"), [bio |-> "I build things"])}

\* MeAPI.getMe
GetMe ==
    /\ \/ meCall' = MeCall("getMe", EmptyDoc, TRUE, "", FirstOrNull(me), clock,
                           meCall.seeded, meCall.pristine)
       \* findOne throws
       \/ meCall' = MeCall("getMe", EmptyDoc, FALSE, "Failed to fetch user", <<>>, clock,
                           meCall.seeded, meCall.pristine)
    /\ UNCHANGED <<serverVars, portfolioVars, uploadVars>>

\* MeAPI.updateMe(updatedData)
UpdateMeCall(updatedData) ==
    /\ \E t \in clock..MaxClock :
         /\ clock' = t
         /\ \* the driver refuses to $set the _id of the document it matched
            \/ /\ ~(Has(updatedData, "_id") /\ Len(me) > 0)
               /\ me' = UpdateMeColl(me, updatedData, t)
               /\ meCall' = MeCall("updateMe", updatedData, TRUE, "", FirstOrNull(me'), t,
                                   meCall.seeded, meCall.pristine /\ Len(me) = 0)
            \* findOneAndUpdate throws
            \/ /\ me' = me
               /\ meCall' = MeCall("updateMe", updatedData, FALSE, "Failed to update user",
                                   <<>>, t, meCall.seeded, meCall.pristine)
    /\ UNCHANGED <<started, articles, reqs, portfolioVars, uploadVars>>

\* MeAPI.initializeMe, its two database operations not interleaved with
\* another call: startServer awaits it before the server listens
InitializeMeCall ==
    /\ \E t1 \in clock..MaxClock :
         \E t2 \in t1..MaxClock :
           /\ clock' = t2
           /\ \/ /\ me' = InitializeMe(me, t1, t2)
                 /\ meCall' = MeCall("initializeMe", EmptyDoc, TRUE, "", <<>>, t2,
                                     IF Len(me) = 0 THEN FirstOrNull(me') ELSE meCall.seeded,
                                     Len(me) = 0 \/ meCall.pristine)
              \* countDocuments throws and the error is thrown again
              \/ /\ me' = me
                 /\ meCall' = MeCall("initializeMe", EmptyDoc, FALSE, "countDocuments",
                                     <<>>, t2, meCall.seeded, meCall.pristine)
              \* insertOne throws and the error is thrown again
              \/ /\ Len(me) = 0
                 /\ me' = me
                 /\ meCall' = MeCall("initializeMe", EmptyDoc, FALSE, "insertOne",
                                     <<>>, t2, meCall.seeded, meCall.pristine)
    /\ UNCHANGED <<started, articles, reqs, portfolioVars, uploadVars>>

(***************************************************************************)
(* The Upload Pipeline: multer, the remote image host, the upload          *)
(* handlers.  A request is modelled from the point where it has passed     *)
(* the Access Gate.                                                        *)
(***************************************************************************)
\* limits: { fileSize: 5 * 1024 * 1024 }
FileSizeLimit == 5 * 1024 * 1024

\* upload.array('images', 10)
MaxCount == 10

\* allowedTypes of fileFilter
AllowedTypes == {"image/jpeg", "image/jpg", "image/png", "image/gif", "image/webp"}

\* the files a client submits: name, declared MIME type, size in bytes
FileKinds ==
    { [name |-> "a.png", mimetype |-> "image/png",  size |-> 1024],
      [name |-> "b.jpg", mimetype |-> "image/jpeg", size |-> FileSizeLimit],
      [name |-> "c.bmp", mimetype |-> "image/bmp",  size |-> 1024],
      [name |-> "d.png", mimetype |-> "image/png",  size |-> 6 * 1024 * 1024] }

\* a file filter that accepts every type
FileFilterAcceptsAll(file) == TRUE

\* fileFilter: cb(null, true) or cb(new Error(...), false)
FileFilter(file) == file.mimetype \in AllowedTypes

\* the error multer ends the request with, "" if it hands the files on
RECURSIVE MulterError(_)
MulterError(files) ==
    IF files = <<>> THEN ""
    ELSE IF ~FileFilter(Head(files))
    THEN "Invalid file type. Only JPEG, PNG, GIF, and WebP images are allowed."
    ELSE IF Head(files).size > FileSizeLimit THEN "File too large"
    ELSE MulterError(Tail(files))

\* upload.single / upload.array: too many files, or the first file refused
Multer(files, maxCount) ==
    IF Len(files) > maxCount THEN "Unexpected field" ELSE MulterError(files)

\* no URL yet
NoUrl == [host |-> "", name |-> ""]

\* data.data.url: the URL the image host gives the upload of a file
RemoteUrl(file) == [host |-> "i.ibb.co", name |-> file.name]

\* fallbackUrl
FallbackUrl(file) == [host |-> "via.placeholder.com", name |-> file.name]

\* what the remote call can do: answer with success, fail in the network,
\* answer with a non-OK status, answer with success = false
RemoteOutcomes == {"success", "network-error", "http-error", "success-false"}

\* an upload function that throws what the remote call threw
UploadOrThrow(file, outcome) ==
    IF outcome = "success" THEN RemoteUrl(file) ELSE NoUrl

\* uploadImageToImageBB: the URL it returns for an outcome of the remote call
UploadImageToImageBB(file, outcome) ==
    IF outcome = "success" THEN RemoteUrl(file) ELSE FallbackUrl(file)

\* no upload request in flight
IdleUp ==
    [pc |-> "idle", kind |-> "", files |-> <<>>, folder |-> "",
     urls |-> <<>>, remoteCalls |-> {}, failed |-> {}, order |-> <<>>,
     handlerInvoked |-> FALSE, metaAttempted |-> FALSE, metaSaved |-> FALSE,
     status |-> 0, error |-> "", imageUrls |-> <<>>, count |-> 0, answers |-> 0]

\* res.status(code).json(...) of an upload handler, or the framework's answer
\* to an error of multer
UpRespond(u, code, message, imageUrls) ==
    [u EXCEPT !.pc = "done", !.status = code, !.error = message,
              !.imageUrls = imageUrls, !.count = Len(imageUrls),
              !.answers = @ + 1]

\* the handlers up to their first await: every remote call is started
StartUploads(u) ==
    [u EXCEPT !.pc = "uploading", !.handlerInvoked = TRUE,
              !.urls = [i \in 1..Len(u.files) |-> NoUrl],
              !.remoteCalls = 1..Len(u.files)]

\* the route: multer, then handleImageUpload or handleMultipleImagesUpload
UploadRoute(u, maxCount, noFileMessage) ==
    IF Multer(u.files, maxCount) # ""
    THEN UpRespond(u, 500, Multer(u.files, maxCount), <<>>)
    ELSE IF u.files = <<>>
    THEN UpRespond([u EXCEPT !.handlerInvoked = TRUE], 400, noFileMessage, <<>>)
    ELSE StartUploads(u)

\* POST /api/upload-image
ArriveSingle(files, folder) ==
    /\ up.pc = "idle"
    /\ Len(files) <= 1
    /\ up' = UploadRoute([IdleUp EXCEPT !.kind = "single", !.files = files,
                                         !.folder = folder],
                         1, "No file uploaded")
    /\ UNCHANGED <<serverVars, portfolioVars, profileVars, dels, images, nextImg>>

\* POST /api/upload-images
ArriveMulti(files) ==
    /\ up.pc = "idle"
    /\ up' = UploadRoute([IdleUp EXCEPT !.kind = "multi", !.files = files,
                                         !.folder = "images"],
                         MaxCount, "No files uploaded")
    /\ UNCHANGED <<serverVars, portfolioVars, profileVars, dels, images, nextImg>>

\* results in the order in which the uploads complete
GatherInCompletionOrder(urls, i, url) ==
    LET done == SelectSeq(urls, LAMBDA x : x # NoUrl)
    IN  [k \in 1..Len(urls) |->
           IF k <= Len(done) THEN done[k]
           ELSE IF k = Len(done) + 1 THEN url ELSE NoUrl]

\* Promise.all: the result of the i-th promise is the i-th element
Gather(urls, i, url) == [urls EXCEPT ![i] = url]

\* the remote call of the i-th file returns or throws
RemoteReturns(i, outcome) ==
    /\ up.pc = "uploading"
    /\ i \in 1..Len(up.files)
    /\ up.urls[i] = NoUrl
    /\ i \notin up.failed
    /\ LET url == UploadImageToImageBB(up.files[i], outcome)
       IN  IF url = NoUrl
           THEN \* the upload threw: the handler's catch answers error.message
                up' = UpRespond([up EXCEPT !.failed = @ \cup {i},
                                           !.order = Append(@, i)], 500, outcome, <<>>)
           ELSE up' = [up EXCEPT !.urls = Gather(up.urls, i, url),
                                 !.order = Append(@, i),
                                 !.failed = IF outcome = "success" THEN @ ELSE @ \cup {i}]
    /\ UNCHANGED <<serverVars, portfolioVars, profileVars, dels, images, nextImg>>

\* a gather that is satisfied by the first upload to complete
AnyUploaded(u) == \E i \in 1..Len(u.urls) : u.urls[i] # NoUrl

\* the upload has its URLs
AllUploaded(u) == \A i \in 1..Len(u.urls) : u.urls[i] # NoUrl

\* handleMultipleImagesUpload after await Promise.all: res.json
RespondMulti ==
    /\ up.pc = "uploading" /\ up.kind = "multi"
    /\ AllUploaded(up)
    /\ up' = UpRespond(up, 200, "", up.urls)
    /\ UNCHANGED <<serverVars, portfolioVars, profileVars, dels, images, nextImg>>

\* the row saveImageMetadata(imageUrl, originalname, folder) stores
ImageRow(url, name, folder, oid, t) ==
    SetFields(IdField(oid),
              [url |-> url, originalName |-> name, folder |-> folder, uploadedAt |-> t])

\* a handler that lets the error of the metadata write reach its outer catch
SingleResponseThrows(u, saved) ==
    IF saved
    THEN UpRespond([u EXCEPT !.metaAttempted = TRUE, !.metaSaved = TRUE], 200, "", u.urls)
    ELSE UpRespond([u EXCEPT !.metaAttempted = TRUE], 500, "saveImageMetadata", <<>>)

\* handleImageUpload after await saveImageMetadata, saved or caught: res.json
SingleResponse(u, saved) ==
    UpRespond([u EXCEPT !.metaAttempted = TRUE, !.metaSaved = saved], 200, "", u.urls)

\* handleImageUpload after await uploadImageToImageBB: the metadata write
\* returns or throws, then the response is sent
SaveMetadata ==
    /\ up.pc = "uploading" /\ up.kind = "single"
    /\ AllUploaded(up)
    /\ \/ /\ images' = Append(images, ImageRow(up.urls[1], up.files[1].name, up.folder,
                                               Oid(nextImg), clock))
          /\ nextImg' = nextImg + 1
          /\ up' = SingleResponse(up, TRUE)
       \* the write throws
       \/ /\ UNCHANGED <<images, nextImg>>
          /\ up' = SingleResponse(up, FALSE)
    /\ UNCHANGED <<serverVars, portfolioVars, profileVars, dels>>

(***************************************************************************)
(* Image deletion: handleImageDelete.  getImageById and deleteImageById    *)
(* are methods the handler calls on PortfolioAPI.                          *)
(***************************************************************************)
DelSlots == 1..MaxDel

\* a slot no delete request has arrived in
IdleDel ==
    [pc |-> "idle", id |-> <<>>, url |-> NoUrl, steps |-> <<>>,
     lookupServed |-> FALSE, found |-> FALSE,
     remoteTried |-> FALSE, remoteFailed |-> FALSE, rowDeleted |-> FALSE,
     status |-> 0, error |-> ""]

\* a status mapping that looks for the message of the portfolio routes
ImageDeleteStatusOfPortfolio(message) ==
    IF message = "Portfolio not found" THEN 404 ELSE 500

\* statusCode of handleImageDelete's catch
ImageDeleteStatus(message) ==
    IF message = "Image not found" \/ message = "Invalid image ID format" THEN 404 ELSE 500

\* the catch of handleImageDelete answers an error
DelFail(dreq, message) ==
    [dreq EXCEPT !.pc = "done", !.status = ImageDeleteStatus(message), !.error = message]

\* the row getImageById(id) and deleteImageById(id) resolve id to, 0 if none
FindImage(coll, id) ==
    FirstMatch({ i \in 1..Len(coll) : coll[i]["_id"] = ObjectId(id) })

\* DELETE /api/images/:id up to await getImageById(id)
DelArrive(d, id) ==
    /\ dels[d].pc \in {"idle", "done"}
    /\ dels' = [dels EXCEPT ![d] = [IdleDel EXCEPT !.pc = "lookup", !.id = id]]
    /\ UNCHANGED <<serverVars, portfolioVars, profileVars, up, images, nextImg>>

\* getImageById returns the row or throws; with the row, the handler calls
\* deleteImageFromFirebase(image.url)
LookupReturns(d) ==
    /\ dels[d].pc = "lookup"
    /\ LET dreq == dels[d]
           i == FindImage(images, dreq.id)
           served == [dreq EXCEPT !.lookupServed = TRUE]
       IN  \/ /\ MatchesObjectId(dreq.id) /\ i # 0
              /\ dels' = [dels EXCEPT ![d] =
                            [served EXCEPT !.pc = "remote", !.found = TRUE,
                                           !.url = images[i].url,
                                           !.steps = Append(@, "lookup"),
                                           !.remoteTried = TRUE]]
           \/ /\ MatchesObjectId(dreq.id) /\ i = 0
              /\ dels' = [dels EXCEPT ![d] = DelFail(served, "Image not found")]
           \/ /\ ~MatchesObjectId(dreq.id)
              /\ dels' = [dels EXCEPT ![d] = DelFail(served, "Invalid image ID format")]
           \* the driver throws
           \/ dels' = [dels EXCEPT ![d] = DelFail(dreq, "Failed to fetch image")]
    /\ UNCHANGED <<serverVars, portfolioVars, profileVars, up, images, nextImg>>

\* a handler that lets the error of the storage reach its outer catch
AfterRemoteDeleteThrows(dreq, ok) ==
    IF ok
    THEN [dreq EXCEPT !.pc = "dbdelete", !.steps = Append(@, "remote")]
    ELSE DelFail([dreq EXCEPT !.steps = Append(@, "remote"), !.remoteFailed = TRUE],
                 "Failed to delete image")

\* try { await deleteImageFromFirebase(imageUrl) } catch (storageError) {},
\* then deleteImageById(id) is called
AfterRemoteDelete(dreq, ok) ==
    [dreq EXCEPT !.pc = "dbdelete", !.steps = Append(@, "remote"),
                 !.remoteFailed = ~ok]

\* deleteImageFromFirebase returns true or throws 'Failed to delete image'
RemoteDeleteReturns(d, ok) ==
    /\ dels[d].pc = "remote"
    /\ dels' = [dels EXCEPT ![d] = AfterRemoteDelete(dels[d], ok)]
    /\ UNCHANGED <<serverVars, portfolioVars, profileVars, up, images, nextImg>>

\* deleteImageById returns or throws, then res.json or the catch
DbDeleteReturns(d) ==
    /\ dels[d].pc = "dbdelete"
    /\ LET dreq == [dels[d] EXCEPT !.steps = Append(@, "delete")]
           i == FindImage(images, dreq.id)
       IN  \/ /\ i # 0
              /\ images' = RemoveAt(images, i)
              /\ dels' = [dels EXCEPT ![d] =
                            [dreq EXCEPT !.pc = "done", !.status = 200, !.rowDeleted = TRUE]]
           \* the row is gone already: the method returns
           \/ /\ i = 0
              /\ images' = images
              /\ dels' = [dels EXCEPT ![d] = [dreq EXCEPT !.pc = "done", !.status = 200]]
           \* the row is gone already: the method signals NotFound
           \/ /\ i = 0
              /\ images' = images
              /\ dels' = [dels EXCEPT ![d] = DelFail(dreq, "Image not found")]
           \* the driver throws
           \/ /\ images' = images
              /\ dels' = [dels EXCEPT ![d] = DelFail(dreq, "Failed to delete image")]
    /\ UNCHANGED <<serverVars, portfolioVars, profileVars, up, nextImg>>

(***************************************************************************)
(* Specifications.                                                         *)
(***************************************************************************)
InitPortfolios ==
    /\ portfolios = <<>>
    /\ nextOid = 1
    /\ call = NoCall
    /\ meCall = NoMeCall
    /\ up = IdleUp
    /\ dels = [d \in DelSlots |-> IdleDel]
    /\ images = <<>>
    /\ nextImg = 1

Init ==
    /\ started = FALSE
    /\ articles = <<>>
    /\ me = <<>>
    /\ clock = 0
    /\ reqs = [r \in Slots |-> IdleReq]
    /\ InitPortfolios

\* the article routes under concurrent requests
ArriveArticle(r) == ArriveOn(r, ArticleRoutes)

Next ==
    \/ StartServer
    \/ \E r \in Slots :
         \/ ArriveArticle(r)
         \/ VerifyResolve(r)
         \/ VerifyReject(r)
         \/ UpvoteRead(r)
         \/ UpvoteWrite(r)
         \/ AddComment(r)

Spec == Init /\ [][Next]_vars

\* the profile route under concurrent requests
ArriveMe(r) == ArriveOn(r, {PutMe})

NextMe ==
    \/ StartServer
    \/ \E r \in Slots :
         \/ ArriveMe(r)
         \/ UpdateMe(r)

SpecMe == Init /\ [][NextMe]_vars

\* the profile store called directly, from the empty collection
UpdateMeWith == \E data \in ProfileBodies : UpdateMeCall(data)

NextProfile == GetMe \/ UpdateMeWith \/ InitializeMeCall

SpecProfile == Init /\ [][NextProfile]_vars

\* the server after startServer, no request received yet
InitListening ==
    /\ started = TRUE
    /\ articles = InitializeArticles(<<>>)
    /\ me = InitializeMe(<<>>, 0, 0)
    /\ clock = 0
    /\ reqs = [r \in Slots |-> IdleReq]

\* the server listening, nothing stored by the portfolio routes
InitStore ==
    /\ InitListening
    /\ InitPortfolios

\* the upload routes: every request the first the server receives, its
\* remote calls returning in any order
Folders == {"", "cv"}

\* req.body.folder || 'images'
FolderOf(folder) == IF folder = "" THEN "images" ELSE folder

UploadOne ==
    \E files \in StringsOver(FileKinds, 0, 1), folder \in Folders :
        ArriveSingle(files, FolderOf(folder))

UploadMany == \E files \in StringsOver(FileKinds, 0, MaxFiles) : ArriveMulti(files)

RemoteAnswers ==
    \E i \in 1..MaxFiles, outcome \in RemoteOutcomes : RemoteReturns(i, outcome)

NextUpload == UploadOne \/ UploadMany \/ RemoteAnswers \/ RespondMulti \/ SaveMetadata

SpecUpload == InitStore /\ [][NextUpload]_vars

\* the delete route under concurrent requests, one image stored
ImageIds == { Oid(1), Oid(2), <<"x">> }

\* what handleImageUpload stored for a.png
SampleImages ==
    << ImageRow(RemoteUrl([name |-> "a.png"]), "a.png", "images", Oid(1), 0) >>

InitImages ==
    /\ InitListening
    /\ portfolios = <<>> /\ nextOid = 1 /\ call = NoCall /\ meCall = NoMeCall
    /\ up = IdleUp
    /\ dels = [d \in DelSlots |-> IdleDel]
    /\ images = SampleImages
    /\ nextImg = Len(SampleImages) + 1

NextImageDelete ==
    \E d \in DelSlots :
        \/ \E id \in ImageIds : DelArrive(d, id)
        \/ LookupReturns(d)
        \/ \E ok \in BOOLEAN : RemoteDeleteReturns(d, ok)
        \/ DbDeleteReturns(d)

SpecImageDelete == InitImages /\ [][NextImageDelete]_vars

\* the upload routes when every remote call returns and the handler is
\* resumed once its promise is settled
SpecUploadLive ==
    SpecUpload /\ WF_vars(RemoteAnswers) /\ WF_vars(RespondMulti) /\ WF_vars(SaveMetadata)

MyCoolProject ==
    << "M", "y", " ", "C", "o", "o", "l", " ", "P", "r", "o", "j", "e", "c", "t" >>

\* the portfolio routes on a small set of items, ids and bodies
StoreBodies ==
    { [title |-> <<"7">>],
      [title |-> <<"A", " ", "b">>, id |-> ParseInt(<<"7">>)],
      [title |-> <<"A", " ", "b">>, id |-> StringValue(<<"0", "7">>)] }

StoreUpdates ==
    { [title |-> <<"N", "e", "w">>],
      SetFields(IdField(Oid(2)), [title |-> <<"N", "e", "w">>]),
      IdField(<<"x">>) }

StoreIds == { Oid(1), Oid(2), <<"7">>, <<"0", "7">>, <<"a", "_", "b">>, <<"n", "o">> }

CreateItem == \E data \in StoreBodies : CreatePortfolio(data, MaxCreates)
GetItem == \E id \in StoreIds : GetPortfolioById(id)
UpdateItem == \E id \in StoreIds, data \in StoreUpdates : UpdatePortfolio(id, data)
DeleteItem == \E id \in StoreIds : DeletePortfolio(id)

NextPortfolio == CreateItem \/ GetItem \/ UpdateItem \/ DeleteItem

SpecPortfolio == InitStore /\ [][NextPortfolio]_vars

\* the Identity Resolver on many :id path segments, one item stored
IdAlphabet == {"0", "7", "F", "g"}

PadChars == {"7", "f"}

IdStrings ==
    StringsOver(IdAlphabet, 1, MaxIdLen)
    \cup { prefix \o Repeat(c, n - Len(prefix)) :
             prefix \in StringsOver(IdAlphabet, 0, 1),
             c \in PadChars,
             n \in (ObjectIdHexLen - 1)..(ObjectIdHexLen + 1) }

\* what createPortfolio stored for { title: '7', id: 7 }
SampleItems ==
    << InsertedDoc(WithSlug([title |-> <<"7">>, id |-> ParseInt(<<"7">>)]), Oid(1)) >>

InitResolve ==
    /\ InitListening
    /\ portfolios = SampleItems
    /\ nextOid = Len(SampleItems) + 1
    /\ call = NoCall
    /\ meCall = NoMeCall
    /\ up = IdleUp
    /\ dels = [d \in DelSlots |-> IdleDel]
    /\ images = <<>>
    /\ nextImg = 1

ResolveGet == \E id \in IdStrings : GetPortfolioById(id)
ResolveUpdate == \E id \in IdStrings : UpdatePortfolio(id, [title |-> <<"N", "e", "w">>])
ResolveDelete == \E id \in IdStrings : DeletePortfolio(id)

NextResolve == ResolveGet \/ ResolveUpdate \/ ResolveDelete

SpecResolve == InitResolve /\ [][NextResolve]_vars

\* createPortfolio on many titles, the collection holding one item at a time
TitleAlphabet == {"A", "b", " ", "\t"}

Titles ==
    StringsOver(TitleAlphabet, 0, MaxTitleLen)
    \cup { MyCoolProject, <<"A", " ", "\t", "b">>, <<" ", "Z", "\n", "\n">> }

SuppliedSlug == <<"m", "i", "n", "e">>

SlugBodies ==
    { [title |-> t] : t \in Titles }
    \cup { [title |-> t, slug |-> SuppliedSlug] : t \in Titles }
    \cup { [slug |-> SuppliedSlug] }

SlugCreate == \E data \in SlugBodies : CreatePortfolio(data, 1)
SlugDelete == \E n \in 1..MaxCreates : DeletePortfolio(Oid(n))

NextSlug == SlugCreate \/ SlugDelete

SpecSlug == InitStore /\ [][NextSlug]_vars

(***************************************************************************)
(* Properties of the article store and of the Access Gate.                 *)
(***************************************************************************)
\* request r is an upvote that upvoteArticle has not been called for yet
AwaitsUpvote(r) == reqs[r].pc = "handler" /\ reqs[r].route = PutUpvote

\* request r makes the findOne step of upvoteArticle and the driver serves it
UpvoteReadServed(r) ==
    /\ AwaitsUpvote(r)
    /\ reqs'[r].pc # "handler"
    /\ reqs'[r].error # "driver error"

\* the voter ids stored for a document, none when the field is absent
VoterIds(doc) == IF Has(doc, "upvodIds") THEN doc.upvodIds ELSE <<>>

\* C1: once upvoteArticle(name, uid) has succeeded, a later call with the
\* same name and uid (its read served by the database) fails with
\* 'Already upvoted', status 403, and leaves every article as it was.
C1_SecondUpvoteRejected ==
    [][\A r1, r2 \in Slots :
          ( /\ reqs[r1].pc = "done" /\ reqs[r1].route = PutUpvote
            /\ reqs[r1].status = 200
            /\ reqs[r2].name = reqs[r1].name
            /\ UidOf(reqs[r2]) = UidOf(reqs[r1])
            /\ UpvoteReadServed(r2) )
          => ( /\ reqs'[r2].pc = "done"
               /\ reqs'[r2].error = "Already upvoted"
               /\ reqs'[r2].status = 403
               /\ articles' = articles )]_vars

\* a second call by the same voter for the same article was answered 403
\* after the first had been answered 200
C1_Witness ==
    \E r1, r2 \in Slots :
        /\ reqs[r1].pc = "done" /\ reqs[r1].route = PutUpvote /\ reqs[r1].status = 200
        /\ reqs[r2].pc = "done" /\ reqs[r2].route = PutUpvote /\ reqs[r2].status = 403
        /\ reqs[r2].name = reqs[r1].name
        /\ UidOf(reqs[r2]) = UidOf(reqs[r1])

\* C2: under every interleaving of upvote requests no voter id occurs more
\* than once in an article's voter-id list.
C2_VoterCountedOnce ==
    \A i \in 1..Len(articles) :
        \A j, k \in 1..Len(VoterIds(articles[i])) :
            VoterIds(articles[i])[j] = VoterIds(articles[i])[k] => j = k

\* C3: in every state reached from the seeded articles, each article's
\* upvote count equals the number of voter ids stored for it, an article
\* without the voter-id field counting as zero.
C3_CountEqualsVoterIds ==
    \A i \in 1..Len(articles) :
        articles[i].upvotes = Len(VoterIds(articles[i]))

\* an article has been upvoted and commented on
C3_Witness ==
    \E i \in 1..Len(articles) :
        articles[i].upvotes = 1 /\ Len(articles[i].comments) = 1

\* the failure the claim names for an upvote, 0 when it names none
ClaimedUpvoteFailure(r) ==
    LET uid == UidOf(reqs[r])
        i == FindArticle(articles, reqs[r].name)
    IN  IF uid = NoUid THEN 401
        ELSE IF i = 0 THEN 404
        ELSE IF uid \in Range(VoterIds(articles[i])) THEN 403
        ELSE 0

\* C4: an upvote whose read the database serves fails with 401 when the
\* voter id is absent (also when the article is absent too), else with 404
\* when no article has the name, else with 403 when the voter id is in the
\* article's list; a failing upvote has issued the one read and no write,
\* and no article is modified.
C4_UpvoteFailureOrder ==
    [][\A r \in Slots :
          UpvoteReadServed(r)
          => IF ClaimedUpvoteFailure(r) = 0
             THEN reqs'[r].pc = "update" /\ reqs'[r].status = 0
             ELSE /\ reqs'[r].pc = "done"
                  /\ reqs'[r].status = ClaimedUpvoteFailure(r)
                  /\ reqs'[r].dbOps = 1
                  /\ articles' = articles]_vars

\* an upvote without voter id for an article that does not exist got 401
C4_Witness ==
    \E r \in Slots :
        /\ reqs[r].pc = "done" /\ reqs[r].route = PutUpvote
        /\ reqs[r].handlerInvoked
        /\ UidOf(reqs[r]) = NoUid
        /\ FindArticle(articles, reqs[r].name) = 0
        /\ reqs[r].status = 401

\* C5: PUT /api/me is handled only after the gate has passed the request;
\* without an authtoken header it gets 401 and never reaches updateMe.
C5_PutMeBehindGate ==
    \A r \in Slots :
        reqs[r].route = PutMe
        => /\ reqs[r].handlerInvoked => reqs[r].userSet
           /\ (reqs[r].token = NoToken /\ reqs[r].pc = "done")
                 => (reqs[r].status = 401 /\ reqs[r].dbOps = 0)

\* C6: a request without authtoken header to a route mounted after the gate
\* is answered 401 'Unauthorized' in the step it arrives in: the verifier is
\* not called, the handler is not invoked, no database operation is issued.
C6_NoTokenStopsAtGate ==
    \A r \in Slots :
        ( /\ reqs[r].pc # "idle"
          /\ MountedAfterGate(reqs[r].route)
          /\ reqs[r].token = NoToken )
        => ( /\ reqs[r].pc = "done"
             /\ reqs[r].status = 401
             /\ reqs[r].error = "Unauthorized"
             /\ ~reqs[r].verifierCalled
             /\ ~reqs[r].userSet
             /\ ~reqs[r].handlerInvoked
             /\ reqs[r].dbOps = 0 )

\* an upvote without authtoken header was answered
C6_Witness ==
    \E r \in Slots :
        /\ reqs[r].route = PutUpvote /\ reqs[r].token = NoToken
        /\ reqs[r].pc = "done" /\ reqs[r].status = 401

\* C7: a request to a protected route whose token fails verification is
\* answered 401 and its handler is never invoked.
C7_BadTokenGets401 ==
    \A r \in Slots :
        ( /\ reqs[r].pc \in {"done", "unanswered"}
          /\ MountedAfterGate(reqs[r].route)
          /\ reqs[r].token \in Tokens \ ValidTokens )
        => (reqs[r].status = 401 /\ ~reqs[r].handlerInvoked)

(***************************************************************************)
(* Properties of the portfolio store.                                      *)
(***************************************************************************)
\* the filter the claim describes for an id
ClaimedFilter(id) ==
    IF Len(id) = 24 /\ Range(id) \subseteq HexChars
    THEN [kind |-> "_id", oid |-> ObjectId(id)]
    ELSE IF id # <<>> /\ Range(id) \subseteq Digits
    THEN [kind |-> "or", idNumber |-> ParseInt(id), idString |-> StringValue(id),
          slug |-> id]
    ELSE [kind |-> "slug", slug |-> id]

\* C8: getPortfolioById, updatePortfolio and deletePortfolio build, for
\* every id, the same filter: the primary-key filter for exactly 24
\* hexadecimal characters (also when all are digits), else the 'or' filter
\* over id as number, id as string and slug for an all-digit string, else
\* slug equality.
C8_SameFilterForAllThree ==
    call.op \in {"get", "update", "delete"} => call.query = ClaimedFilter(call.id)

\* an update given 24 digits found its item through the primary key
C8_Witness ==
    /\ call.op = "update" /\ call.ok
    /\ Len(call.id) = 24 /\ Range(call.id) \subseteq Digits
    /\ call.query.kind = "_id"

\* the positions of a title that give a character of the slug: those of the
\* other characters and of the first character of each run of whitespace
SlugPositions(title) ==
    { i \in 1..Len(title) :
        title[i] \notin Whitespace \/ i = 1 \/ title[i - 1] \notin Whitespace }

\* the k-th smallest element of a set of numbers
Nth(S, k) == CHOOSE i \in S : Cardinality({ j \in S : j <= i }) = k

\* the slug the claim describes: the title in lower case, its whitespace
\* replaced by underscores, one for each run
ClaimedSlug(title) ==
    [k \in 1..Cardinality(SlugPositions(title)) |->
        LET c == title[Nth(SlugPositions(title), k)]
        IN  IF c \in Whitespace THEN "_" ELSE LowerChar(c)]

\* C9: for a non-empty title createPortfolio stores and returns the slug
\* that is the title in lower case with whitespace replaced by underscores,
\* whatever slug the body supplied; 'My Cool Project' gives
\* 'my_cool_project'.
C9_SlugFromTitle ==
    ( /\ call.op = "create" /\ call.ok
      /\ Has(call.data, "title") /\ call.data.title # <<>> )
    => /\ call.result.slug = ClaimedSlug(call.data.title)
       /\ \E i \in 1..Len(portfolios) :
             /\ portfolios[i]["_id"] = call.result["_id"]
             /\ portfolios[i].slug = ClaimedSlug(call.data.title)
       /\ call.data.title = MyCoolProject
             => call.result.slug = << "m", "y", "_", "c", "o", "o", "l", "_",
                                      "p", "r", "o", "j", "e", "c", "t" >>

\* 'My Cool Project' was created with a slug of the client's in the body
C9_Witness ==
    /\ call.op = "create" /\ call.ok
    /\ Has(call.data, "title") /\ call.data.title = MyCoolProject
    /\ Has(call.data, "slug") /\ call.data.slug # call.result.slug

\* C10: after updatePortfolio(id, data), with or without _id in data, every
\* stored item has the primary key it had before the call, and the
\* collection holds the same primary keys.
C10_UpdateKeepsPrimaryKeys ==
    call.op = "update" => PrimaryKeys(portfolios) = call.keysBefore

\* an update whose body carried an _id has been applied to one of two items
C10_Witness ==
    /\ call.op = "update" /\ call.ok
    /\ Has(call.data, "_id") /\ Has(call.data, "title")
    /\ Len(portfolios) = 2
    /\ \E i \in 1..Len(portfolios) :
          /\ portfolios[i].title = call.data.title
          /\ portfolios[i]["_id"] # call.data["_id"]

\* C11: PUT or DELETE /api/portfolios/:id with an id that resolves to no
\* stored item, the driver having served the operation, answers 404 (a
\* database failure answers 500) and leaves the collection unchanged.
C11_MissingItemGets404 ==
    [][ ( /\ call'.op \in {"update", "delete"}
          /\ call'.served
          /\ FindPortfolio(portfolios, call'.query) = 0 )
        => /\ call'.status = 404
           /\ portfolios' = portfolios ]_vars

(***************************************************************************)
(* Properties of the profile store.                                        *)
(***************************************************************************)
\* C12: initializeMe called again on the seeded collection leaves the one
\* document the first call stored, and getMe then returns that default
\* profile (calls the driver serves, no updateMe in between).
C12_SeedingIdempotent ==
    /\ (meCall.op = "initializeMe" /\ meCall.ok)
         => /\ Len(me) = 1
            /\ meCall.before # <<>> => me = meCall.before
    /\ (meCall.seeded # <<>> /\ meCall.pristine)
         => /\ me = meCall.seeded
            /\ \E t1 \in 0..MaxClock, t2 \in 0..MaxClock : me[1] = DefaultUser(t1, t2)
            /\ (meCall.op = "getMe" /\ meCall.ok) => meCall.result = meCall.seeded

\* initializeMe has returned on the collection an earlier call had seeded
C12_Witness ==
    /\ meCall.op = "initializeMe" /\ meCall.ok
    /\ meCall.before # <<>> /\ meCall.before = meCall.seeded
    /\ meCall.pristine

\* C13: once the profile has been seeded, after every getMe, updateMe and
\* initializeMe call the collection holds exactly one document.
C13_ExactlyOneProfile == meCall.seeded # <<>> => Len(me) = 1

\* updateMe has changed the seeded profile and initializeMe was called again
C13_Witness ==
    /\ meCall.seeded # <<>> /\ ~meCall.pristine
    /\ meCall.op = "initializeMe" /\ meCall.ok
    /\ Len(me) = 1 /\ me # meCall.seeded

\* the value updateMe gives field f of the document doc it matched
ClaimedField(doc, data, t, f) ==
    IF f = "updatedAt" THEN t
    ELSE IF f \in DOMAIN data THEN data[f]
    ELSE doc[f]

\* C14: a returning updateMe(data) sets the fields of data and updatedAt,
\* stamped with the time of the call whatever updatedAt data has, and keeps
\* every other field; on an empty collection it creates nothing.
C14_UpdateMeMerges ==
    (meCall.op = "updateMe" /\ meCall.ok)
    => IF meCall.before = <<>>
       THEN me = <<>>
       ELSE /\ Len(me) = Len(meCall.before)
            /\ DOMAIN me[1] = DOMAIN meCall.before[1] \cup DOMAIN meCall.data
                                \cup {"updatedAt"}
            /\ \A f \in DOMAIN me[1] :
                  me[1][f] = ClaimedField(meCall.before[1], meCall.data, meCall.t, f)
            /\ \A i \in 2..Len(me) : me[i] = meCall.before[i]

\* updateMe was given an updatedAt other than the time of the call
C14_Witness ==
    /\ meCall.op = "updateMe" /\ meCall.ok
    /\ meCall.before # <<>>
    /\ Has(meCall.data, "updatedAt") /\ meCall.data.updatedAt # meCall.t
    /\ me[1].name = meCall.data.name

(***************************************************************************)
(* Properties of the Upload Pipeline.                                      *)
(***************************************************************************)
\* a file the claims call valid: at most 5 MiB, of an allowed declared type
ValidFile(file) ==
    /\ file.size <= 5242880
    /\ file.mimetype \in {"image/jpeg", "image/jpg", "image/png", "image/gif", "image/webp"}

AllValid(files) == \A i \in 1..Len(files) : ValidFile(files[i])

\* C15: an upload request, single-file or multi-file, with a file larger
\* than 5 MiB or of a declared type outside the allow-list is rejected with
\* no remote upload started for any of its files and no metadata row
\* written.
C15_InvalidFileRejectedFirst ==
    (up.pc # "idle" /\ ~AllValid(up.files))
    => /\ up.pc = "done" /\ up.status >= 400
       /\ up.remoteCalls = {}
       /\ ~up.handlerInvoked
       /\ ~up.metaAttempted /\ ~up.metaSaved

\* a multi-file request whose first file is valid and whose second is too
\* large has been rejected
C15_Witness ==
    /\ up.pc = "done" /\ up.kind = "multi" /\ Len(up.files) >= 2
    /\ ValidFile(up.files[1])
    /\ up.files[2].size > 5242880
    /\ up.remoteCalls = {}

\* C16: a multi-file upload of N >= 1 valid files answers N URLs and
\* count N, the i-th URL that of the i-th file, in whatever order the
\* remote uploads complete.
C16_UrlsInSubmissionOrder ==
    ( /\ up.kind = "multi" /\ up.pc = "done"
      /\ Len(up.files) >= 1 /\ AllValid(up.files) )
    => /\ up.status = 200
       /\ Len(up.imageUrls) = Len(up.files)
       /\ up.count = Len(up.files)
       /\ \A i \in 1..Len(up.files) : up.imageUrls[i].name = up.files[i].name

\* three uploads of files with two names completed last file first
C16_Witness ==
    /\ up.kind = "multi" /\ up.pc = "done" /\ up.status = 200
    /\ Len(up.files) = 3
    /\ up.files[1].name # up.files[3].name
    /\ up.order = <<3, 2, 1>>

\* C17: whatever the remote call does, uploadImageToImageBB returns a URL,
\* the placeholder when the call failed; the single-file request still
\* answers success with that URL, and the multi-file request answers
\* success with the placeholder for the failing files only.
C17_RemoteFailureDegrades ==
    /\ \A i \in 1..Len(up.order) :
         LET k == up.order[i]
         IN  up.urls[k] = [host |-> IF k \in up.failed THEN "via.placeholder.com"
                                                       ELSE "i.ibb.co",
                           name |-> up.files[k].name]
    /\ (up.pc = "done" /\ up.handlerInvoked /\ up.files # <<>>)
         => /\ up.status = 200
            /\ up.imageUrls = up.urls

\* a batch of three answered success with the placeholder for its second file
C17_Witness ==
    /\ up.kind = "multi" /\ up.pc = "done" /\ up.status = 200
    /\ Len(up.files) = 3 /\ up.failed = {2}
    /\ up.imageUrls[2].host = "via.placeholder.com"
    /\ up.imageUrls[1].host = "i.ibb.co" /\ up.imageUrls[3].host = "i.ibb.co"

\* C18: in the single-file endpoint a failed metadata write is swallowed:
\* the request answers success with the URL of the upload, and it answers
\* only after the write attempt has finished.
C18_MetadataFailureSwallowed ==
    /\ (up.kind = "single" /\ up.status = 200) => up.metaAttempted
    /\ (up.kind = "single" /\ up.metaAttempted /\ ~up.metaSaved)
         => /\ up.pc = "done" /\ up.status = 200
            /\ up.imageUrls = <<up.urls[1]>>
            /\ up.urls[1] # NoUrl

\* the image host took the file, the metadata write failed, the answer is 200
C18_Witness ==
    /\ up.kind = "single" /\ up.pc = "done"
    /\ up.metaAttempted /\ ~up.metaSaved
    /\ up.status = 200 /\ up.imageUrls[1].host = "i.ibb.co"
    /\ images = <<>>

\* the steps of an image deletion in the order the claim gives them
ClaimedSteps == <<"lookup", "remote", "delete">>

\* C19: an image deletion looks up the row, attempts the remote deletion,
\* then deletes the row; it goes on to the row whatever the remote
\* deletion did, and when it answers success the row is gone.
C19_DeleteStepsInOrder ==
    \A d \in DelSlots :
        /\ dels[d].steps = SubSeq(ClaimedSteps, 1, Len(dels[d].steps))
        /\ (dels[d].pc = "done" /\ dels[d].found) => dels[d].steps = ClaimedSteps
        /\ (dels[d].pc = "done" /\ dels[d].status = 200)
             => /\ dels[d].found /\ dels[d].steps = ClaimedSteps
                /\ FindImage(images, dels[d].id) = 0

\* the remote deletion failed, the row was deleted, the answer is success
C19_Witness ==
    \E d \in DelSlots :
        /\ dels[d].pc = "done" /\ dels[d].status = 200
        /\ dels[d].remoteFailed /\ dels[d].rowDeleted
        /\ images = <<>>

\* C20: DELETE /api/images/:id with an id that resolves to no metadata row
\* answers 404, with no remote deletion attempted and no row deleted.
C20_MissingImageGets404 ==
    \A d \in DelSlots :
        (dels[d].lookupServed /\ ~dels[d].found)
        => /\ dels[d].pc = "done" /\ dels[d].status = 404
           /\ ~dels[d].remoteTried
           /\ ~dels[d].rowDeleted
           /\ dels[d].steps = <<>>

\* a well-formed id without a row was answered 404 while the image is stored
C20_Witness ==
    \E d \in DelSlots :
        /\ dels[d].lookupServed /\ ~dels[d].found
        /\ dels[d].id = Oid(2) /\ dels[d].status = 404
        /\ images = SampleImages

(***************************************************************************)
(* Further properties of the stores and routes.                            *)
(***************************************************************************)
\* C21: GET /api/portfolios/:id with an id that resolves to no stored item,
\* the driver having served the read, is answered 404.
C21_MissingItemReadGets404 ==
    ( /\ call.op = "get" /\ call.served
      /\ FindPortfolio(portfolios, call.query) = 0 )
    => call.status = 404

\* C22: every upload answered as successful has created one metadata row
\* for each URL it returned: after the request the number of rows is the
\* number of URLs in its success response.
C22_OneRowPerReturnedUrl ==
    up.pc = "done"
    => Len(images) = (IF up.status = 200 THEN Len(up.imageUrls) ELSE 0)

\* some remote call of the multi-file request has not returned
UploadPending ==
    /\ up.kind = "multi" /\ up.handlerInvoked
    /\ \E i \in 1..Len(up.urls) : up.urls[i] = NoUrl

\* C23: the multi-file endpoint answers only when all its remote uploads
\* have completed: while one is pending no response has been sent, and when
\* every remote call completes the request is answered, exactly once.
C23_AnswerAfterAllUploads ==
    /\ [](UploadPending => (up.pc = "uploading" /\ up.answers = 0))
    /\ [](up.answers <= 1)
    /\ (up.kind = "multi" /\ up.pc = "uploading") ~> (up.pc = "done" /\ up.answers = 1)

\* two of three uploads have completed and the request is not answered
C23_Witness ==
    /\ up.kind = "multi" /\ up.pc = "uploading" /\ Len(up.files) = 3
    /\ Len(up.order) = 2
    /\ up.answers = 0

\* the generic messages the store operations behind the protected routes
\* give a failed operation
ClaimedOperationFailed ==
    {"Failed to upvote article", "Failed to add comment", "Failed to update user"}

\* C24: a database-driver error inside a store operation reaches the caller
\* as the operation's generic failure, never as the driver's own error, and
\* is answered 500; upvoteArticle included.
C24_DriverErrorIsWrapped ==
    \A r \in Slots :
        ( /\ reqs[r].pc = "done" /\ reqs[r].handlerInvoked
          /\ reqs[r].status = 500 )
        => reqs[r].error \in ClaimedOperationFailed

(***************************************************************************)
(* The article store from startup on, over a database that an earlier run  *)
(* of the server may have left articles in.                                *)
(***************************************************************************)
\* the articles after a run in which alice upvoted and commented learn-react
PreviousRun ==
    AddCommentColl(UpvoteArticleColl(InitializeArticles(<<>>), "learn-react", "alice"),
                   "learn-react", "nice")

\* what the articles collection holds when startServer runs
SeedCollections == {<<>>, PreviousRun}

InitArticles ==
    /\ started = FALSE
    /\ articles \in SeedCollections
    /\ me = <<>>
    /\ clock = 0
    /\ reqs = [r \in Slots |-> IdleReq]
    /\ InitPortfolios

\* req.body.nameText as clients send it: the route passes it on unchecked
CommentTexts == {"nice", ""}

\* the tokens and names the requests of these runs carry
SampleTokens == {NoToken, "tok-alice", "tok-expired"}
SampleNames == {"learn-react", "no-such-article"}

\* an upvote request, or a comment request with one of the texts
ArriveSample(r) ==
    /\ started
    /\ reqs[r].pc = "idle"
    /\ \A q \in 1..(r - 1) : reqs[q].pc # "idle"
    /\ \E route \in ArticleRoutes, token \in SampleTokens, name \in SampleNames :
         \E body \in (IF route = PostComment
                      THEN { [nameText |-> text] : text \in CommentTexts }
                      ELSE {EmptyDoc}) :
           reqs' = [reqs EXCEPT ![r] =
                      Dispatch([IdleReq EXCEPT !.route = route, !.token = token,
                                               !.name = name, !.body = body])]
    /\ UNCHANGED <<started, articles, me, clock, portfolioVars, profileVars, uploadVars>>

NextArticles ==
    \/ StartServer
    \/ \E r \in Slots :
         \/ ArriveSample(r)
         \/ VerifyResolve(r)
         \/ VerifyReject(r)
         \/ UpvoteRead(r)
         \/ UpvoteWrite(r)
         \/ AddComment(r)

SpecArticles == InitArticles /\ [][NextArticles]_vars

\* the names of the stored articles, in their stored order
ArticleNames(coll) == [i \in 1..Len(coll) |-> coll[i].articleName]

\* the three defaults the claim names
ClaimedDefaults ==
    [i \in 1..3 |->
       [articleName |-> <<"learn-react", "learn-node", "learn-mongodb">>[i],
        upvotes |-> 0, comments |-> <<>>]]

\* C25: seeding an empty collection leaves exactly the three default
\* articles with 0 upvotes and no comments, seeding a non-empty collection
\* inserts nothing, and no upvote or comment request, one naming a missing
\* article included, adds or removes an article.
C25_ArticleSetFixed ==
    [][ /\ (~started /\ started')
           => articles' = (IF articles = <<>> THEN ClaimedDefaults ELSE articles)
        /\ started => ArticleNames(articles') = ArticleNames(articles) ]_vars

\* an upvote has been counted and a request naming a missing article has
\* been handled, with the three articles stored
C25_Witness ==
    /\ started
    /\ ArticleNames(articles) = <<"learn-react", "learn-node", "learn-mongodb">>
    /\ \E r \in Slots :
         /\ reqs[r].route = PutUpvote /\ reqs[r].pc = "done" /\ reqs[r].status = 200
    /\ \E r \in Slots :
         /\ reqs[r].name = "no-such-article" /\ reqs[r].handlerInvoked
         /\ reqs[r].pc = "done"

\* the comments of a document, none when it has no comments field
CommentsOf(doc) == IF Has(doc, "comments") THEN doc.comments ELSE <<>>

\* request r is answered by this step with the article addComment returned
CommentStored(r) ==
    /\ reqs[r].pc = "handler" /\ reqs[r].route = PostComment
    /\ reqs'[r].pc = "done" /\ reqs'[r].status = 200
    /\ FindArticle(articles, reqs[r].name) # 0

\* C26: addComment on an existing article appends the text, whatever it
\* is, as the last comment of that article, keeps the earlier comments in
\* their order, and leaves the article's upvotes and voter ids and every
\* other article unchanged.
C26_CommentAppendedOnly ==
    [][ \A r \in Slots :
          CommentStored(r) =>
            LET i == FindArticle(articles, reqs[r].name)
            IN  /\ Len(articles') = Len(articles)
                /\ CommentsOf(articles'[i])
                     = Append(CommentsOf(articles[i]), reqs[r].body.nameText)
                /\ DOMAIN articles'[i] = DOMAIN articles[i] \cup {"comments"}
                /\ \A f \in DOMAIN articles[i] \ {"comments"} :
                     articles'[i][f] = articles[i][f]
                /\ \A j \in 1..Len(articles) : j # i => articles'[j] = articles[j]
      ]_vars

\* the empty text has been appended after an equal pair of earlier comments
\* of an article that has been upvoted
C26_Witness ==
    \E i \in 1..Len(articles) :
        /\ CommentsOf(articles[i]) = <<"nice", "nice", "">>
        /\ Has(articles[i], "upvodIds") /\ articles[i].upvotes = 1

\* this step is a call of updatePortfolio that succeeded
UpdateSucceeds == call' # call /\ call'.op = "update" /\ call'.ok

\* this step is a call of deletePortfolio that succeeded
DeleteSucceeds == call' # call /\ call'.op = "delete" /\ call'.ok

\* C27: updatePortfolio does not recompute the slug: an update whose data
\* has no slug field, a new title or not, leaves the slug of every stored
\* item as it was before the update.
C27_UpdateKeepsSlug ==
    [][ (UpdateSucceeds /\ ~Has(call'.data, "slug"))
        => /\ Len(portfolios') = Len(portfolios)
           /\ \A i \in 1..Len(portfolios) :
                /\ Has(portfolios'[i], "slug") = Has(portfolios[i], "slug")
                /\ Has(portfolios[i], "slug")
                     => portfolios'[i].slug = portfolios[i].slug ]_vars

\* an item has the title an update gave it and a slug that is not the
\* transform of that title
C27_Witness ==
    /\ call.op = "update" /\ call.ok
    /\ Has(call.data, "title") /\ ~Has(call.data, "slug")
    /\ \E i \in 1..Len(portfolios) :
         /\ portfolios[i].title = call.data.title
         /\ portfolios[i].slug = <<"a", "_", "b">>
         /\ portfolios[i].slug # ClaimedSlug(portfolios[i].title)

(***************************************************************************)
(* The upvote route under concurrent requests whose bodies name a voter.   *)
(***************************************************************************)
\* the JSON bodies sent to the upvote route: none, or one naming a voter
UpvoteBodies == {EmptyDoc, [uid |-> "mallory"]}

\* the :name path segments of these requests
VoterNames == {"learn-react", "no-such-article"}

ArriveUpvote(r) ==
    /\ started
    /\ reqs[r].pc = "idle"
    /\ \A q \in 1..(r - 1) : reqs[q].pc # "idle"
    /\ \E token \in {NoToken} \cup Tokens, name \in VoterNames, body \in UpvoteBodies :
         reqs' = [reqs EXCEPT ![r] =
                    Dispatch([IdleReq EXCEPT !.route = PutUpvote, !.token = token,
                                             !.name = name, !.body = body])]
    /\ UNCHANGED <<started, articles, me, clock, portfolioVars, profileVars, uploadVars>>

NextVoters ==
    \E r \in Slots :
        \/ ArriveUpvote(r)
        \/ VerifyResolve(r)
        \/ VerifyReject(r)
        \/ UpvoteRead(r)
        \/ UpvoteWrite(r)

SpecVoters == InitStore /\ [][NextVoters]_vars

\* request r is answered by this step with the upvoted article
UpvoteStored(r) ==
    /\ reqs[r].route = PutUpvote /\ reqs[r].pc = "update"
    /\ reqs'[r].pc = "done" /\ reqs'[r].status = 200

\* the voter ids of a document, none when it has no such field
VotersOf(doc) == IF Has(doc, "upvodIds") THEN doc.upvodIds ELSE <<>>

\* C28: the voter id a successful upvote records is the uid of the identity
\* the gate verified for that request, whatever its path and body say and
\* whatever other requests are in flight.
C28_VoterIsVerifiedUid ==
    [][ \A r \in Slots :
          UpvoteStored(r) =>
            /\ reqs[r].verifierCalled /\ reqs[r].token \in ValidTokens
            /\ \A i \in 1..Len(articles) :
                 VotersOf(articles'[i]) =
                   IF i = FindArticle(articles, reqs[r].name)
                   THEN Append(VotersOf(articles[i]), DecodedToken(reqs[r].token).uid)
                   ELSE VotersOf(articles[i]) ]_vars

\* two requests in flight together, one of them with a body naming another
\* voter, have each recorded the uid of their own token
C28_Witness ==
    /\ \A r \in Slots : reqs[r].pc = "done" /\ reqs[r].status = 200
    /\ reqs[1].token = "tok-alice" /\ reqs[1].body = [uid |-> "mallory"]
    /\ reqs[2].token = "tok-bob"
    /\ \E i \in 1..Len(articles) : VotersOf(articles[i]) = <<"bob", "alice">>

\* the stored items a filter matches
MatchingItems(coll, query) == { i \in 1..Len(coll) : Matches(coll[i], query) }

\* the positions at which two collections of one length differ
ChangedItems(before, after) == { i \in 1..Len(before) : after[i] # before[i] }

\* C29: updatePortfolio and deletePortfolio affect at most one stored item
\* per call, also when the filter of an all-digit id matches several: a
\* successful delete removes exactly one matching item, a successful update
\* writes its fields to exactly one matching item and leaves the others as
\* they were.
C29_OneItemPerCall ==
    [][ /\ UpdateSucceeds
           => /\ Len(portfolios') = Len(portfolios)
              /\ Cardinality(ChangedItems(portfolios, portfolios')) <= 1
              /\ \E i \in MatchingItems(portfolios, call'.query) :
                   /\ \A f \in DOMAIN call'.data \ {"_id"} :
                        Has(portfolios'[i], f) /\ portfolios'[i][f] = call'.data[f]
                   /\ \A j \in 1..Len(portfolios) :
                        j # i => portfolios'[j] = portfolios[j]
        /\ DeleteSucceeds
           => /\ Len(portfolios') = Len(portfolios) - 1
              /\ \E i \in MatchingItems(portfolios, call'.query) :
                   portfolios' = RemoveAt(portfolios, i) ]_vars

\* an update by the id '7' has been applied while that id matched two
\* items: one has the new title, the other its old one
C29_Witness ==
    /\ call.op = "update" /\ call.ok /\ call.id = <<"7">>
    /\ Len(portfolios) = 2
    /\ Has(call.data, "title")
    /\ Cardinality(MatchingItems(portfolios, call.query)) = 2
    /\ Cardinality({ i \in 1..2 : portfolios[i].title = call.data.title }) = 1

\* C30: the object a successful updatePortfolio(id, data) returns has the
\* id string it was called with as its _id, and besides it the fields of
\* data without a client-supplied _id; the stored primary key is not in it
\* when the item was found through its slug or numeric id.
C30_UpdateReturnsPathId ==
    (call.op = "update" /\ call.ok)
    => /\ DOMAIN call.result = (DOMAIN call.data) \cup {"_id"}
       /\ call.result["_id"] = call.id
       /\ \A f \in DOMAIN call.data \ {"_id"} : call.result[f] = call.data[f]

\* an update by slug whose body carried an _id has returned the slug as _id
C30_Witness ==
    /\ call.op = "update" /\ call.ok
    /\ call.id = <<"a", "_", "b">>
    /\ Has(call.data, "_id") /\ Has(call.data, "title")
    /\ call.result["_id"] \notin Range(call.keysBefore)
    /\ call.result["_id"] # call.data["_id"]

====
